---- MODULE Spec2Model ----
(***************************************************************************)
(* A model of generate_outputs.py: the synthetic customer generator        *)
(* (lines 32-72), the export of the table (75-76), the steps of the        *)
(* plotting and summary code that read or change the table, and the pure   *)
(* functions the generator is built from.                                  *)
(*                                                                         *)
(* Floats are fixed point: a float x is the integer 1000*x ("milli"), the  *)
(* churn logit is 1000000*logit ("micro").  The global numpy generator is  *)
(* a 64-state congruential generator: what matters of it is that           *)
(* np.random.seed sets its whole state, that every draw advances it, and   *)
(* that a draw's value is a function of the state it was drawn in.         *)
(***************************************************************************)
EXTENDS Integers, Sequences, FiniteSets, TLC

\* ------------------------------------------------------------------ bounds
MaxN == 3
MaxSeed == 62
MaxEntropy == 3
MaxRuns == 2
MaxIndex == 100005
MaxTickets == 10

\* ------------------------------------------------------- small sequence helpers
Range(s) == {s[i] : i \in DOMAIN s}

Max2(a, b) == IF a >= b THEN a ELSE b
Min2(a, b) == IF a <= b THEN a ELSE b

\* ------------------------------------------------- the global random generator
\* The state np.random.seed(seed) leaves the generator in.
RngSeed(seed) == seed % 64

\* One step of the generator.
RngStep(s) == (5 * s + 3) % 64

RECURSIVE RngStates(_, _)
\* The n states the generator goes through when n values are drawn from state s.
RngStates(s, n) ==
    IF n <= 0 THEN <<>> ELSE <<RngStep(s)>> \o RngStates(RngStep(s), n - 1)

\* The generator's state after n draws from s.
RngAfter(s, n) == IF n <= 0 THEN s ELSE RngStates(s, n)[n]

\* ------------------------------------------------------------ numeric helpers
\* clip with the lower bound forgotten.
clip_upper_only(x, lo, hi) == Min2(x, hi)

\* ndarray.clip(lo, hi), Series.clip(lo)
clip(x, lo, hi) == Min2(Max2(x, lo), hi)
clip_lower(x, lo) == Max2(x, lo)

\* ndarray.astype(int) of a float in milli: truncation toward zero.
astype_int(x) == IF x >= 0 THEN x \div 1000 ELSE -((-x) \div 1000)

\* round(d) of a float in milli to a multiple of step milli (step 10 is two
\* decimals, step 100 is one), halves to the even multiple.
round_to(x, step) ==
    LET q == x \div step
        r == x % step
    IN  IF 2 * r < step THEN q * step
        ELSE IF 2 * r > step THEN (q + 1) * step
        ELSE IF q % 2 = 0 THEN q * step ELSE (q + 1) * step

\* ---------------------------------------------------------- the distributions
\* Each maps a generator state u in 0..63 to the value drawn in it.
ZTable == <<-4000, -1834, -1000, -333, 333, 1000, 1834, 4000>>
ETable == <<0, 100, 500, 1000, 2000, 4000, 8000, 10000>>
PTable == <<0, 1, 1, 2, 2, 3, 4, 10>>

\* np.random.normal(loc, scale): in milli, unbounded on both sides.
normal(loc, scale, u) == 1000 * loc + scale * ZTable[(u \div 8) + 1]

\* np.random.exponential(scale): in milli, >= 0, unbounded above.
exponential(scale, u) == scale * ETable[(u % 8) + 1]

\* np.random.uniform(lo, hi): in milli, in [lo, hi).
uniform(lo, hi, u) == 1000 * lo + ((hi - lo) * 1000 * u) \div 64

\* np.random.poisson(2): an integer >= 0.
poisson(u) == PTable[((u \div 2) % 8) + 1]

\* np.random.choice(options, p=weights): cdf is the running sum of the weights
\* in percent; the option chosen is the first whose cdf exceeds u/64.
choice_p(options, cdf, u) ==
    options[CHOOSE i \in DOMAIN options :
                /\ u * 100 < cdf[i] * 64
                /\ \A j \in DOMAIN options : j < i => ~(u * 100 < cdf[j] * 64)]

\* np.random.choice(options): every option equally likely.
choice(options, u) == options[((u * Len(options)) \div 64) + 1]


\* ------------------------------------------------------------------ strings
\* A string is the sequence of its characters.
DigitChars == <<"0", "1", "2", "3", "4", "5", "6", "7", "8", "9">>

RECURSIVE str(_)
\* str(i) for i >= 0
str(i) ==
    IF i < 10 THEN <<DigitChars[i + 1]>>
    ELSE str(i \div 10) \o <<DigitChars[(i % 10) + 1]>>

\* zfill that pads with one zero at most.
zfill_one(s, width) == IF Len(s) >= width THEN s ELSE <<"0">> \o s

\* s.zfill(width): zeros on the left up to width, nothing cut.
zfill(s, width) ==
    IF Len(s) >= width THEN s
    ELSE [k \in 1..(width - Len(s)) |-> "0"] \o s

\* f'CUST{str(i).zfill(5)}'
CustId(i) == <<"C", "U", "S", "T">> \o zfill(str(i), 5)

\* ------------------------------------------------------- the fields of a row
\* Each is the value of one element of the column, drawn in generator state u.
age_of(u) == astype_int(clip(normal(45, 15, u), 18000, 90000))
gender_of(u) == choice_p(<<"Male", "Female", "Other">>, <<48, 96, 100>>, u)
tenure_of(u) == astype_int(clip(exponential(24, u), 0, 200000))
contract_of(u) ==
    choice_p(<<"Month-to-month", "One year", "Two year">>, <<50, 80, 100>>, u)
monthly_of(u) == round_to(uniform(20, 120, u), 10)
internet_of(u) == choice_p(<<"DSL", "Fiber optic", "No">>, <<30, 80, 100>>, u)
yesno_of(u) == choice(<<"Yes", "No">>, u)
payment_of(u) ==
    choice_p(<<"Electronic check", "Mailed check", "Bank transfer", "Credit card">>,
             <<35, 55, 80, 100>>, u)
paperless_of(u) == choice_p(<<"Yes", "No">>, <<60, 100>>, u)
tickets_of(u) == poisson(u)
satisfaction_of(u) == round_to(uniform(1, 5, u), 100)

\* The keys with paperless_billing ahead of payment_method.
DictKeysBillingFirst ==
    <<"customer_id", "age", "gender", "tenure_months", "contract_type",
      "monthly_charges", "internet_service", "online_security", "tech_support",
      "streaming_tv", "paperless_billing", "payment_method", "support_tickets",
      "customer_satisfaction">>

\* The keys of the dict literal handed to pd.DataFrame, in the order the
\* literal lists them, which is the order their values are evaluated in.
DictKeys ==
    <<"customer_id", "age", "gender", "tenure_months", "contract_type",
      "monthly_charges", "internet_service", "online_security", "tech_support",
      "streaming_tv", "payment_method", "paperless_billing", "support_tickets",
      "customer_satisfaction">>

\* The value of the dict entry `key`: a list of n values, drawn from state s.
ColumnOf(key, n, s) ==
    LET us == RngStates(s, n)
    IN  CASE key = "customer_id" -> [i \in 1..n |-> CustId(i)]
          [] key = "age" -> [i \in 1..n |-> age_of(us[i])]
          [] key = "gender" -> [i \in 1..n |-> gender_of(us[i])]
          [] key = "tenure_months" -> [i \in 1..n |-> tenure_of(us[i])]
          [] key = "contract_type" -> [i \in 1..n |-> contract_of(us[i])]
          [] key = "monthly_charges" -> [i \in 1..n |-> monthly_of(us[i])]
          [] key = "internet_service" -> [i \in 1..n |-> internet_of(us[i])]
          [] key = "payment_method" -> [i \in 1..n |-> payment_of(us[i])]
          [] key = "paperless_billing" -> [i \in 1..n |-> paperless_of(us[i])]
          [] key = "support_tickets" -> [i \in 1..n |-> tickets_of(us[i])]
          [] key = "customer_satisfaction" ->
                [i \in 1..n |-> satisfaction_of(us[i])]
          [] OTHER -> [i \in 1..n |-> yesno_of(us[i])]

\* The float array a clamped field was cut from, as drawn.
RawOf(key, n, s) ==
    LET us == RngStates(s, n)
    IN  CASE key = "age" -> [i \in 1..n |-> normal(45, 15, us[i])]
          [] key = "tenure_months" -> [i \in 1..n |-> exponential(24, us[i])]
          [] OTHER -> <<>>

\* customer_id is a list comprehension: it draws nothing.
Draws(key) == key # "customer_id"

\* ------------------------------------------------------------------ tables
\* A table is its column names in order and a sequence of values per column.
\* NoFrame is the name `data` before it is bound, and a file not yet written.
EmptyTable == [exists |-> TRUE, cols |-> <<>>, val |-> <<>>]
NoFrame == [exists |-> FALSE, cols |-> <<>>, val |-> <<>>]

\* data[name] = values: a new column goes last, an old one keeps its place.
SetColumn(t, name, values) ==
    [exists |-> TRUE,
     cols |-> IF name \in Range(t.cols) THEN t.cols ELSE Append(t.cols, name),
     val |-> (name :> values) @@ t.val]

\* data.drop(name, axis=1)
DropColumn(t, name) ==
    [exists |-> TRUE,
     cols |-> SelectSeq(t.cols, LAMBDA c : c # name),
     val |-> [c \in (DOMAIN t.val) \ {name} |-> t.val[c]]]

\* len(data)
NRows(t) == IF t.cols = <<>> THEN 0 ELSE Len(t.val[t.cols[1]])

\* The row i of a table: column name -> value.
Row(t, i) == [c \in DOMAIN t.val |-> t.val[c][i]]

\* data.to_csv(path, index=False): the header line, then one line per row with
\* the row's values in column order.
ToCsv(t) ==
    <<t.cols>> \o [i \in 1..NRows(t) |-> [k \in DOMAIN t.cols |-> t.val[t.cols[k]][i]]]

NoFile == <<>>

\* ------------------------------------------------------------ the churn model
\* The logit with the One year term added to every contract but Two year.
logit_both_terms(row) ==
    LET l0 == -2000000
        l1 == l0 + (-50000) * row.tenure_months
        l2 == l1 + 20 * row.monthly_charges
        l3 == l2 + (IF row.contract_type = "Month-to-month" THEN 1500000 ELSE 0)
        l4 == l3 + (IF row.contract_type # "Two year" THEN 500000 ELSE 0)
        l5 == l4 + 300000 * row.support_tickets
        l6 == l5 + (-800) * row.customer_satisfaction
    IN  l6

\* The logit of calculate_churn_probability, in micro.
logit_of(row) ==
    LET l0 == -2000000
        l1 == l0 + (-50000) * row.tenure_months
        l2 == l1 + 20 * row.monthly_charges
        l3 == l2 + (IF row.contract_type = "Month-to-month" THEN 1500000 ELSE 0)
        l4 == l3 + (IF row.contract_type = "One year" THEN 500000 ELSE 0)
        l5 == l4 + 300000 * row.support_tickets
        l6 == l5 + (-800) * row.customer_satisfaction
    IN  l6

\* The probability of a row with the ticket count left out of it.
churn_probability_no_tickets(row) == logit_of([row EXCEPT !.support_tickets = 0])

\* prob = 1 / (1 + exp(-logit)).  The logistic function is a strictly
\* increasing bijection from the reals onto (0,1): a probability is kept as
\* its log-odds, and compared through LogOdds below.
calculate_churn_probability(row) == logit_of(row)

\* np.random.random(): a float in [0,1), in eighths.
random(u) == u \div 8

\* ln(q / (8 - q)) in micro, rounded up, for q = 1..7 eighths.
LogOdds == <<-1945910, -1098612, -510825, 1, 510826, 1098613, 1945911>>

\* q/8 < prob
less_than_prob(q, prob) == IF q = 0 THEN TRUE ELSE prob >= LogOdds[q]

\* (np.random.random(n) < data['churn_prob']).map({True: 'Yes', False: 'No'})
churn_of(u, prob) == IF less_than_prob(random(u), prob) THEN "Yes" ELSE "No"

\* (tenure_months * monthly_charges + noise).clip(0).round(2), in milli
total_of(tenure, monthly, noise) ==
    round_to(clip_lower(tenure * monthly + noise, 0), 10)

\* ------------------------------------------------------------------ pd.cut
\* pd.cut(x, bins, labels): the label of the interval (bins[i], bins[i+1]]
\* that holds x, NaN when none does.
cut(x, bins, labels) ==
    LET hits == {i \in 1..(Len(bins) - 1) : bins[i] < x /\ x <= bins[i + 1]}
    IN  IF hits = {} THEN "NaN" ELSE labels[CHOOSE i \in hits : TRUE]

\* The bins with 0 for the first edge.
tenure_bins_from_zero == <<0, 12, 24, 48, 200>>

tenure_bins == <<-1, 12, 24, 48, 200>>
tenure_labels == <<"0-1 year", "1-2 years", "2-4 years", "4+ years">>
\* in milli
satisfaction_bins == <<0, 2000, 3000, 4000, 5000>>
satisfaction_labels ==
    <<"Poor (1-2)", "Fair (2-3)", "Good (3-4)", "Excellent (4-5)">>

tenure_group(t) == cut(t, tenure_bins, tenure_labels)
satisfaction_group(x) == cut(x, satisfaction_bins, satisfaction_labels)

\* ------------------------------------------------------------ aggregation
RECURSIVE Sum(_)
Sum(s) == IF s = <<>> THEN 0 ELSE Head(s) + Sum(Tail(s))

\* The rows of t whose churn is v, as indices.
RowsWith(t, v) == {i \in 1..NRows(t) : t.val["churn"][i] = v}

\* data['churn'].value_counts(): the values that occur, with their counts.
ValueCounts(t) ==
    [v \in {t.val["churn"][i] : i \in 1..NRows(t)} |-> Cardinality(RowsWith(t, v))]

\* The quotient a / b rounded to a multiple of step, halves to the even one.
round_div(a, b, step) ==
    LET m == b * step
        q == a \div m
        r == a % m
    IN  IF 2 * r < m THEN q * step
        ELSE IF 2 * r > m THEN (q + 1) * step
        ELSE IF q % 2 = 0 THEN q * step ELSE (q + 1) * step

\* The columns summary_stats averages, with the factor that takes each to milli.
SummaryColumns ==
    <<"age", "tenure_months", "monthly_charges", "total_charges",
      "support_tickets", "customer_satisfaction">>
InMilli(c) ==
    IF c \in {"age", "tenure_months", "support_tickets"} THEN 1000 ELSE 1

\* mean of column c over the rows in `rows`, .round(2), in milli
MeanOf(t, c, rows) ==
    LET picked == SelectSeq([i \in 1..NRows(t) |-> IF i \in rows THEN i ELSE 0],
                            LAMBDA i : i # 0)
        total == Sum([k \in DOMAIN picked |-> InMilli(c) * t.val[c][picked[k]]])
    IN  round_div(total, Cardinality(rows), 10)

\* data.groupby('churn').agg({...: 'mean'}).round(2) with the count column
SummaryStats(t) ==
    [v \in DOMAIN ValueCounts(t) |->
        [count |-> ValueCounts(t)[v],
         mean |-> [c \in Range(SummaryColumns) |-> MeanOf(t, c, RowsWith(t, v))]]]

\* int(len(data) * 0.75), int(len(data) * 0.25)
TrainingSamples(n) == (n * 75) \div 100
TestSamples(n) == (n * 25) \div 100

\* ------------------------------------------------------------------- state
VARIABLES
    n_customers,    \* the record count the script sets
    seed,           \* the seed the script sets
    rng,            \* the state of numpy's global generator
    pc,             \* the statement the script is at
    lit,            \* the dict literal of line 36, as far as it is evaluated
    data,           \* the DataFrame `data`
    raw,            \* the float arrays the clamped fields were cut from
    drawlog,        \* the fields np.random was called for, in call order
    csv_data,       \* data/customer_churn_data.csv
    csv_clean,      \* data/customer_churn_clean.csv
    prev_csv,       \* data/customer_churn_data.csv as the run found it
    run,            \* the number of this run of the script
    churn_counts,   \* churn_counts of line 92
    numeric_data,   \* numeric_data of line 267
    summary_stats,  \* outputs/churn_summary_statistics.csv
    metadata,       \* the sample counts of models/model_metadata.txt
    outputs,        \* the other files written
    error,          \* the exception that ended the run
    probe,          \* the arguments a function is applied to on its own
    out             \* its result

vars ==
    <<n_customers, seed, rng, pc, lit, data, raw, drawlog, csv_data, csv_clean,
      prev_csv, run, churn_counts, numeric_data, summary_stats, metadata,
      outputs, error, probe, out>>

\* The script's own state.
script_vars ==
    <<n_customers, seed, rng, pc, lit, data, raw, drawlog, csv_data, csv_clean,
      prev_csv, run, churn_counts, numeric_data, summary_stats, metadata,
      outputs, error>>

NoRaw == [age |-> <<>>, tenure_months |-> <<>>, total_charges |-> <<>>]
NoMetadata == [training |-> -1, test |-> -1]

\* A process that has just started: nothing bound, the generator seeded by
\* the operating system.
FreshProcess ==
    /\ rng \in 0..MaxEntropy
    /\ pc = "seed"
    /\ lit = EmptyTable
    /\ data = NoFrame
    /\ raw = NoRaw
    /\ drawlog = <<>>
    /\ churn_counts = <<>>
    /\ numeric_data = NoFrame
    /\ error = "none"

\* The files as the first run finds them, and no function applied on its own.
FirstRun ==
    /\ csv_data = NoFile
    /\ csv_clean = NoFile
    /\ prev_csv = NoFile
    /\ run = 1
    /\ summary_stats = <<>>
    /\ metadata = NoMetadata
    /\ outputs = {}
    /\ probe = <<>>
    /\ out = <<>>

Init ==
    /\ n_customers \in 1..MaxN
    /\ seed \in 0..MaxSeed
    /\ FreshProcess
    /\ FirstRun

\* As Init, with a record count that is not positive allowed.
InitAnyN ==
    /\ n_customers \in (-1)..MaxN
    /\ seed \in 0..MaxSeed
    /\ FreshProcess
    /\ FirstRun

\* ----------------------------------------------------------- the generator
\* The first statement without its call of np.random.seed: the generator
\* stays as the operating system seeded it.
SeedOmitted ==
    /\ pc = "seed"
    /\ pc' = "dict"
    /\ UNCHANGED <<probe, out, n_customers, seed, rng, lit, data, raw, drawlog,
                   csv_data, csv_clean, prev_csv, run, churn_counts,
                   numeric_data, summary_stats, metadata, outputs, error>>

\* np.random.seed(42); n_customers = 5000
Seed ==
    /\ pc = "seed"
    /\ rng' = RngSeed(seed)
    /\ pc' = "dict"
    /\ UNCHANGED <<probe, out, n_customers, seed, lit, data, raw, drawlog, csv_data,
                   csv_clean, prev_csv, run, churn_counts, numeric_data,
                   summary_stats, metadata, outputs, error>>

\* The next entry of the dict literal: its value is evaluated, drawing
\* n_customers values from the generator (none for customer_id).
DictEntry ==
    /\ pc = "dict"
    /\ Len(lit.cols) < Len(DictKeys)
    /\ LET key == DictKeys[Len(lit.cols) + 1]
       IN  /\ ~(Draws(key) /\ n_customers < 0)
           /\ lit' = SetColumn(lit, key, ColumnOf(key, n_customers, rng))
           /\ rng' = IF Draws(key) THEN RngAfter(rng, n_customers) ELSE rng
           /\ drawlog' = IF Draws(key) THEN Append(drawlog, key) ELSE drawlog
           /\ raw' = IF key \in {"age", "tenure_months"}
                     THEN [raw EXCEPT ![key] = RawOf(key, n_customers, rng)]
                     ELSE raw
    /\ UNCHANGED <<probe, out, n_customers, seed, pc, data, csv_data, csv_clean, prev_csv,
                   run, churn_counts, numeric_data, summary_stats, metadata,
                   outputs, error>>

\* np.random.normal(45, 15, n) with n < 0: ValueError, negative dimensions.
DictEntryRaise ==
    /\ pc = "dict"
    /\ Len(lit.cols) < Len(DictKeys)
    /\ Draws(DictKeys[Len(lit.cols) + 1])
    /\ n_customers < 0
    /\ pc' = "raised"
    /\ error' = "ValueError"
    /\ UNCHANGED <<probe, out, n_customers, seed, rng, lit, data, raw, drawlog, csv_data,
                   csv_clean, prev_csv, run, churn_counts, numeric_data,
                   summary_stats, metadata, outputs>>

\* data = pd.DataFrame({...}): the literal is complete, the frame is built.
MakeFrame ==
    /\ pc = "dict"
    /\ Len(lit.cols) = Len(DictKeys)
    /\ data' = lit
    /\ pc' = "total_charges"
    /\ UNCHANGED <<probe, out, n_customers, seed, rng, lit, raw, drawlog, csv_data,
                   csv_clean, prev_csv, run, churn_counts, numeric_data,
                   summary_stats, metadata, outputs, error>>

\* data['total_charges'] = (tenure * monthly + normal(0, 50, n)).clip(0).round(2)
TotalCharges ==
    /\ pc = "total_charges"
    /\ LET us == RngStates(rng, n_customers)
           noise == [i \in 1..n_customers |-> normal(0, 50, us[i])]
           t == data.val["tenure_months"]
           m == data.val["monthly_charges"]
       IN  /\ data' = SetColumn(data, "total_charges",
                        [i \in 1..n_customers |-> total_of(t[i], m[i], noise[i])])
           /\ raw' = [raw EXCEPT !.total_charges =
                        [i \in 1..n_customers |-> t[i] * m[i] + noise[i]]]
    /\ rng' = RngAfter(rng, n_customers)
    /\ drawlog' = Append(drawlog, "total_charges")
    /\ pc' = "churn_prob"
    /\ UNCHANGED <<probe, out, n_customers, seed, lit, csv_data, csv_clean, prev_csv, run,
                   churn_counts, numeric_data, summary_stats, metadata,
                   outputs, error>>

\* data['churn_prob'] = data.apply(calculate_churn_probability, axis=1)
ChurnProb ==
    /\ pc = "churn_prob"
    /\ data' = SetColumn(data, "churn_prob",
                 [i \in 1..NRows(data) |-> calculate_churn_probability(Row(data, i))])
    /\ pc' = "churn"
    /\ UNCHANGED <<probe, out, n_customers, seed, rng, lit, raw, drawlog, csv_data,
                   csv_clean, prev_csv, run, churn_counts, numeric_data,
                   summary_stats, metadata, outputs, error>>

\* Line 70 on a table without rows: DataFrame.apply returns, by the pandas
\* version, an empty Series (ChurnProb) or a copy of the frame, and a frame
\* of several columns cannot be assigned to one column: ValueError.
ChurnProbRaise ==
    /\ pc = "churn_prob"
    /\ NRows(data) = 0
    /\ pc' = "raised"
    /\ error' = "ValueError"
    /\ UNCHANGED <<probe, out, n_customers, seed, rng, lit, data, raw, drawlog,
                   csv_data, csv_clean, prev_csv, run, churn_counts,
                   numeric_data, summary_stats, metadata, outputs>>

\* data['churn'] = (np.random.random(n) < data['churn_prob']).map(...)
Churn ==
    /\ pc = "churn"
    /\ LET us == RngStates(rng, n_customers)
       IN  data' = SetColumn(data, "churn",
                     [i \in 1..n_customers |->
                        churn_of(us[i], data.val["churn_prob"][i])])
    /\ rng' = RngAfter(rng, n_customers)
    /\ drawlog' = Append(drawlog, "churn")
    /\ pc' = "drop"
    /\ UNCHANGED <<probe, out, n_customers, seed, lit, raw, csv_data, csv_clean, prev_csv,
                   run, churn_counts, numeric_data, summary_stats, metadata,
                   outputs, error>>

\* The drop with the label column named in place of the probability column.
DropChurn ==
    /\ pc = "drop"
    /\ data' = DropColumn(data, "churn")
    /\ pc' = "to_csv_data"
    /\ UNCHANGED <<probe, out, n_customers, seed, rng, lit, raw, drawlog,
                   csv_data, csv_clean, prev_csv, run, churn_counts,
                   numeric_data, summary_stats, metadata, outputs, error>>

\* data = data.drop('churn_prob', axis=1)
DropProb ==
    /\ pc = "drop"
    /\ data' = DropColumn(data, "churn_prob")
    /\ pc' = "to_csv_data"
    /\ UNCHANGED <<probe, out, n_customers, seed, rng, lit, raw, drawlog, csv_data,
                   csv_clean, prev_csv, run, churn_counts, numeric_data,
                   summary_stats, metadata, outputs, error>>

\* data.to_csv('data/customer_churn_data.csv', index=False)
ToCsvData ==
    /\ pc = "to_csv_data"
    /\ csv_data' = ToCsv(data)
    /\ pc' = "to_csv_clean"
    /\ UNCHANGED <<probe, out, n_customers, seed, rng, lit, data, raw, drawlog, csv_clean,
                   prev_csv, run, churn_counts, numeric_data, summary_stats,
                   metadata, outputs, error>>

\* data.to_csv('data/customer_churn_clean.csv', index=False)
ToCsvClean ==
    /\ pc = "to_csv_clean"
    /\ csv_clean' = ToCsv(data)
    /\ pc' = "plot01"
    /\ UNCHANGED <<probe, out, n_customers, seed, rng, lit, data, raw, drawlog, csv_data,
                   prev_csv, run, churn_counts, numeric_data, summary_stats,
                   metadata, outputs, error>>

\* ------------------------------------------------------------------ plots
\* Plots 1 to 4 (lines 91-155): they read data, and keep churn_counts.
Plot01to04 ==
    /\ pc = "plot01"
    /\ NRows(data) > 0
    /\ churn_counts' = ValueCounts(data)
    /\ outputs' = outputs \cup {"01_churn_distribution.png", "02_churn_by_contract.png",
                                "03_tenure_distribution.png",
                                "04_monthly_charges_churn.png"}
    /\ pc' = "plot05"
    /\ UNCHANGED <<probe, out, n_customers, seed, rng, lit, data, raw, drawlog, csv_data,
                   csv_clean, prev_csv, run, numeric_data, summary_stats,
                   metadata, error>>

\* Line 102 on a table without rows: max() of an empty sequence, ValueError.
Plot01Raise ==
    /\ pc = "plot01"
    /\ NRows(data) = 0
    /\ churn_counts' = ValueCounts(data)
    /\ pc' = "raised"
    /\ error' = "ValueError"
    /\ UNCHANGED <<probe, out, n_customers, seed, rng, lit, data, raw, drawlog, csv_data,
                   csv_clean, prev_csv, run, numeric_data, summary_stats,
                   metadata, outputs>>

\* The groups, as bin numbers, assigned to the column they were computed from.
OverTenureMonths(t) ==
    SetColumn(t, "tenure_months",
              [i \in 1..NRows(t) |->
                  cut(t.val["tenure_months"][i], tenure_bins, <<0, 1, 2, 3>>)])

\* data['tenure_group'] = pd.cut(data['tenure_months'], ...)
WithTenureGroup(t) ==
    SetColumn(t, "tenure_group",
              [i \in 1..NRows(t) |-> tenure_group(t.val["tenure_months"][i])])

\* data['satisfaction_group'] = pd.cut(data['customer_satisfaction'], ...)
WithSatisfactionGroup(t) ==
    SetColumn(t, "satisfaction_group",
              [i \in 1..NRows(t) |->
                  satisfaction_group(t.val["customer_satisfaction"][i])])

\* Plot 5 (lines 158-173): the tenure groups become a column of data; the
\* pivot has a column per churn value that occurs, and both are read.
Plot05 ==
    /\ pc = "plot05"
    /\ {"Yes", "No"} \subseteq DOMAIN ValueCounts(data)
    /\ data' = WithTenureGroup(data)
    /\ outputs' = outputs \cup {"05_tenure_contract_interaction.png"}
    /\ pc' = "plot06"
    /\ UNCHANGED <<probe, out, n_customers, seed, rng, lit, raw, drawlog, csv_data,
                   csv_clean, prev_csv, run, churn_counts, numeric_data,
                   summary_stats, metadata, error>>

\* Line 162 when every row has the same churn value: KeyError.
Plot05Raise ==
    /\ pc = "plot05"
    /\ ~({"Yes", "No"} \subseteq DOMAIN ValueCounts(data))
    /\ data' = WithTenureGroup(data)
    /\ pc' = "raised"
    /\ error' = "KeyError"
    /\ UNCHANGED <<probe, out, n_customers, seed, rng, lit, raw, drawlog, csv_data,
                   csv_clean, prev_csv, run, churn_counts, numeric_data,
                   summary_stats, metadata, outputs>>

\* Plot 6 (lines 176-189): the satisfaction groups become a column of data.
Plot06 ==
    /\ pc = "plot06"
    /\ data' = WithSatisfactionGroup(data)
    /\ outputs' = outputs \cup {"06_satisfaction_churn.png"}
    /\ pc' = "plot07"
    /\ UNCHANGED <<probe, out, n_customers, seed, rng, lit, raw, drawlog, csv_data,
                   csv_clean, prev_csv, run, churn_counts, numeric_data,
                   summary_stats, metadata, error>>

\* Plots 7 to 9 (lines 192-263): they read data and churn_counts.
Plot07to09 ==
    /\ pc = "plot07"
    /\ outputs' = outputs \cup {"07_payment_method_churn.png",
                                "08_support_tickets_churn.png", "09_dashboard.png"}
    /\ pc' = "plot10"
    /\ UNCHANGED <<probe, out, n_customers, seed, rng, lit, data, raw, drawlog, csv_data,
                   csv_clean, prev_csv, run, churn_counts, numeric_data,
                   summary_stats, metadata, error>>

\* (numeric_data[c] == v).astype(int)
Indicator(t, c, v) == [i \in 1..NRows(t) |-> IF t.val[c][i] = v THEN 1 ELSE 0]

\* Plot 10 (lines 266-284): numeric_data is a copy of data with four columns more.
Plot10 ==
    /\ pc = "plot10"
    /\ numeric_data' =
          LET n1 == SetColumn(data, "churn_binary", Indicator(data, "churn", "Yes"))
              n2 == SetColumn(n1, "gender_binary", Indicator(data, "gender", "Female"))
              n3 == SetColumn(n2, "contract_month",
                              Indicator(data, "contract_type", "Month-to-month"))
          IN  SetColumn(n3, "paperless", Indicator(data, "paperless_billing", "Yes"))
    /\ outputs' = outputs \cup {"correlation_matrix.png"}
    /\ pc' = "plot11"
    /\ UNCHANGED <<probe, out, n_customers, seed, rng, lit, data, raw, drawlog, csv_data,
                   csv_clean, prev_csv, run, churn_counts, summary_stats,
                   metadata, error>>

\* Plots 11 and 12 (lines 287-331): drawn from literals.
Plot11to12 ==
    /\ pc = "plot11"
    /\ outputs' = outputs \cup {"feature_importance.png", "roc_curves.png"}
    /\ pc' = "summary"
    /\ UNCHANGED <<probe, out, n_customers, seed, rng, lit, data, raw, drawlog, csv_data,
                   csv_clean, prev_csv, run, churn_counts, numeric_data,
                   summary_stats, metadata, error>>

\* ------------------------------------------------------ summaries, metadata
\* Lines 340-352: outputs/churn_summary_statistics.csv
WriteSummary ==
    /\ pc = "summary"
    /\ summary_stats' = SummaryStats(data)
    /\ pc' = "model_comparison"
    /\ UNCHANGED <<probe, out, n_customers, seed, rng, lit, data, raw, drawlog, csv_data,
                   csv_clean, prev_csv, run, churn_counts, numeric_data,
                   metadata, outputs, error>>

\* Lines 355-364: outputs/model_comparison.csv, literals.
ModelComparison ==
    /\ pc = "model_comparison"
    /\ outputs' = outputs \cup {"model_comparison.csv"}
    /\ pc' = "metadata"
    /\ UNCHANGED <<probe, out, n_customers, seed, rng, lit, data, raw, drawlog, csv_data,
                   csv_clean, prev_csv, run, churn_counts, numeric_data,
                   summary_stats, metadata, error>>

\* Lines 373-394: models/model_metadata.txt
WriteMetadata ==
    /\ pc = "metadata"
    /\ metadata' = [training |-> TrainingSamples(NRows(data)),
                    test |-> TestSamples(NRows(data))]
    /\ pc' = "model_file"
    /\ UNCHANGED <<probe, out, n_customers, seed, rng, lit, data, raw, drawlog, csv_data,
                   csv_clean, prev_csv, run, churn_counts, numeric_data,
                   summary_stats, outputs, error>>

\* Lines 396-423: models/random_forest_churn_model.txt and the closing prints.
ModelFile ==
    /\ pc = "model_file"
    /\ outputs' = outputs \cup {"random_forest_churn_model.txt"}
    /\ pc' = "done"
    /\ UNCHANGED <<probe, out, n_customers, seed, rng, lit, data, raw, drawlog, csv_data,
                   csv_clean, prev_csv, run, churn_counts, numeric_data,
                   summary_stats, metadata, error>>

\* The script is run again: a new process, the files of the last run on disk.
Rerun ==
    /\ pc \in {"done", "raised"}
    /\ run < MaxRuns
    /\ run' = run + 1
    /\ prev_csv' = csv_data
    /\ rng' \in 0..MaxEntropy
    /\ pc' = "seed"
    /\ lit' = EmptyTable
    /\ data' = NoFrame
    /\ raw' = NoRaw
    /\ drawlog' = <<>>
    /\ churn_counts' = <<>>
    /\ numeric_data' = NoFrame
    /\ error' = "none"
    /\ UNCHANGED <<probe, out, n_customers, seed, csv_data, csv_clean, summary_stats,
                   metadata, outputs>>

\* ------------------------------------------------------------ specifications
Next ==
    \/ Seed
    \/ DictEntry
    \/ MakeFrame
    \/ TotalCharges
    \/ ChurnProb
    \/ Churn
    \/ DropProb
    \/ ToCsvData
    \/ ToCsvClean
    \/ Plot01to04
    \/ Plot05
    \/ Plot05Raise
    \/ Plot06
    \/ Plot07to09
    \/ Plot10
    \/ Plot11to12
    \/ WriteSummary
    \/ ModelComparison
    \/ WriteMetadata
    \/ ModelFile
    \/ Rerun

\* The script for a record count N > 0.
Spec == Init /\ [][Next]_vars

NextAnyN ==
    \/ Next
    \/ DictEntryRaise
    \/ ChurnProbRaise
    \/ Plot01Raise

\* The script for any record count.
SpecAnyN == InitAnyN /\ [][NextAnyN]_vars

\* ------------------------------------------- the functions on their own
\* The script has not started, and stays so.
Idle ==
    /\ seed = 0
    /\ rng = 0
    /\ pc = "seed"
    /\ lit = EmptyTable
    /\ data = NoFrame
    /\ raw = NoRaw
    /\ drawlog = <<>>
    /\ churn_counts = <<>>
    /\ numeric_data = NoFrame
    /\ error = "none"
    /\ csv_data = NoFile
    /\ csv_clean = NoFile
    /\ prev_csv = NoFile
    /\ run = 1
    /\ summary_stats = <<>>
    /\ metadata = NoMetadata
    /\ outputs = {}

\* The last element of the list comprehension of line 37, for every record
\* count up to MaxIndex.
InitCustId ==
    /\ Idle
    /\ n_customers \in 1..MaxIndex
    /\ probe = <<n_customers>>
    /\ out = <<>>

ApplyCustId ==
    /\ out = <<>>
    /\ out' = <<CustId(probe[1])>>
    /\ UNCHANGED <<probe, script_vars>>

SpecCustId == InitCustId /\ [][ApplyCustId]_vars

\* The rows calculate_churn_probability is applied to: the ends and some
\* inner values of each field it reads.
TenureSamples == {0, 1, 12, 24, 48, 199, 200}
ChargesSamples == {20000, 70550, 120000}
SatisfactionSamples == {1000, 2500, 3700, 5000}
Contracts == {"Month-to-month", "One year", "Two year"}

InitLogit ==
    /\ Idle
    /\ n_customers = 1
    /\ probe \in {<<r>> : r \in [tenure_months : TenureSamples,
                                 monthly_charges : ChargesSamples,
                                 contract_type : Contracts,
                                 support_tickets : 0..MaxTickets,
                                 customer_satisfaction : SatisfactionSamples]}
    /\ out = <<>>

ApplyLogit ==
    /\ out = <<>>
    /\ out' = <<calculate_churn_probability(probe[1])>>
    /\ UNCHANGED <<probe, script_vars>>

SpecLogit == InitLogit /\ [][ApplyLogit]_vars

\* The values the generator gives the two columns pd.cut is applied to.
TenureDomain == 0..200
SatisfactionDomain == {100 * k : k \in 10..50}

InitCut ==
    /\ Idle
    /\ n_customers = 1
    /\ probe \in {<<t, x>> : t \in TenureDomain, x \in SatisfactionDomain}
    /\ out = <<>>

ApplyCut ==
    /\ out = <<>>
    /\ out' = <<tenure_group(probe[1]), satisfaction_group(probe[2])>>
    /\ UNCHANGED <<probe, script_vars>>

SpecCut == InitCut /\ [][ApplyCut]_vars

\* ==================================================================== claims
\* The statements the script has run past, by what is done when pc is there.
BeforeFrame == {"seed", "dict"}
Generating == {"total_charges", "churn_prob", "churn", "drop"}
BeforeExport == BeforeFrame \cup Generating \cup {"to_csv_data"}

\* data/customer_churn_data.csv has been written by this run.  A run of Spec
\* raises only in plot 5, after the export.
Exported == pc \notin BeforeExport

\* ----------------------------------------------------------------------- C1
\* C1: a run with the same record count and the same seed as the run before
\* writes the same table: once this run has exported, the data file is, line
\* for line and value for value, the file the run before left, whatever state
\* the operating system started either generator in.
C1_Deterministic ==
    (run >= 2 /\ Exported) =>
        /\ csv_data = prev_csv
        /\ csv_clean = csv_data

\* A second run has exported a table of MaxN rows over the first run's file.
C1_Witness ==
    /\ run = 2
    /\ pc = "done"
    /\ Len(csv_data) = n_customers + 1
    /\ n_customers >= 2
    /\ csv_data = prev_csv

\* ----------------------------------------------------------------------- C2
\* C2: in every column of the dict literal and of the table, at every step,
\* age is in 18..90, tenure_months in 0..200, total_charges >= 0 and
\* support_tickets >= 0, whatever the draws returned.
C2_FieldsInDomain ==
    \A t \in {lit, data} :
        \A i \in 1..NRows(t) :
            /\ "age" \in DOMAIN t.val => t.val["age"][i] \in 18..90
            /\ "tenure_months" \in DOMAIN t.val =>
                   t.val["tenure_months"][i] \in 0..200
            /\ "total_charges" \in DOMAIN t.val => t.val["total_charges"][i] >= 0
            /\ "support_tickets" \in DOMAIN t.val =>
                   t.val["support_tickets"][i] >= 0

\* A table in which a draw outside 18..90 became age 18 or 90, a draw above
\* 200 became tenure 200 and a negative sum became total_charges 0.
C2_Witness ==
    /\ pc = "to_csv_data"
    /\ \E i \in 1..NRows(data) :
           \/ raw.age[i] < 18000 /\ data.val["age"][i] = 18
           \/ raw.age[i] > 90000 /\ data.val["age"][i] = 90
    /\ \E i \in 1..NRows(data) :
           raw.tenure_months[i] > 200000 /\ data.val["tenure_months"][i] = 200
    /\ \E i \in 1..NRows(data) :
           raw.total_charges[i] < 0 /\ data.val["total_charges"][i] = 0

\* ----------------------------------------------------------------------- C3
Digits == {"0", "1", "2", "3", "4", "5", "6", "7", "8", "9"}

\* The value of a digit character.
DigitValue(c) == CHOOSE d \in 0..9 : DigitChars[d + 1] = c

RECURSIVE Number(_)
\* The number a sequence of digit characters writes.
Number(ds) ==
    IF ds = <<>> THEN 0
    ELSE 10 * Number(SubSeq(ds, 1, Len(ds) - 1)) + DigitValue(ds[Len(ds)])

\* id is CUST followed by digits.
IsCustDigits(id) ==
    /\ Len(id) > 4
    /\ SubSeq(id, 1, 4) = <<"C", "U", "S", "T">>
    /\ \A k \in 5..Len(id) : id[k] \in Digits

\* id is CUST followed by exactly five digits that write i.
FiveDigitId(id, i) ==
    /\ Len(id) = 9
    /\ IsCustDigits(id)
    /\ Number(SubSeq(id, 5, 9)) = i

\* C3 as claimed: the customer_id of every row number i >= 1 is CUST followed
\* by exactly five digits, the zero-padded i.
C3_FiveDigitsEveryN == out # <<>> => FiveDigitId(out[1], probe[1])

\* C3, amended: the customer_id of row i is CUST followed by digits that
\* write i, so the ids of a batch are pairwise distinct for every N; the
\* digits are exactly five, zero-padded, for i <= 99999, and more than five
\* from row 100000 on.
C3_IdFormat ==
    out # <<>> =>
        /\ IsCustDigits(out[1])
        /\ Number(SubSeq(out[1], 5, Len(out[1]))) = probe[1]
        /\ probe[1] <= 99999 => FiveDigitId(out[1], probe[1])
        /\ probe[1] > 99999 => Len(out[1]) > 9

\* Row 42 has the id CUST00042.
C3_Witness ==
    /\ probe = <<42>>
    /\ out = <<(<<"C", "U", "S", "T", "0", "0", "0", "4", "2">>)>>

\* ----------------------------------------------------------------------- C4
\* The logit as the claim writes it, in micro, with one contract term.
ClaimedLogit(row) ==
    -2000000 - 50000 * row.tenure_months + 20 * row.monthly_charges
    + (CASE row.contract_type = "Month-to-month" -> 1500000
         [] row.contract_type = "One year" -> 500000
         [] row.contract_type = "Two year" -> 0)
    + 300000 * row.support_tickets - 800 * row.customer_satisfaction

Example1 ==
    [tenure_months |-> 0, monthly_charges |-> 20000,
     contract_type |-> "Month-to-month", support_tickets |-> 0,
     customer_satisfaction |-> 5000]
Example2 ==
    [tenure_months |-> 0, monthly_charges |-> 120000,
     contract_type |-> "Month-to-month", support_tickets |-> 10,
     customer_satisfaction |-> 1000]

\* C4: for every row the logit computed is -2 - 0.05*tenure + 0.02*charges
\* + (1.5, 0.5 or 0 by contract type) + 0.3*tickets - 0.8*satisfaction; it is
\* -4.1 for the first example row and 4.1 for the second.
C4_Logit ==
    out # <<>> =>
        /\ out[1] = ClaimedLogit(probe[1])
        /\ probe[1] = Example1 => out[1] = -4100000
        /\ probe[1] = Example2 => out[1] = 4100000

\* The second example row has been given the logit 4.1.
C4_Witness == probe = <<Example2>> /\ out = <<4100000>>

\* ----------------------------------------------------------------------- C5
\* C5: with the other fields of the row fixed, every larger tenure_months in
\* 0..200 gives a strictly smaller logit, every larger support_tickets a
\* strictly larger one, and every larger customer_satisfaction in 1.0..5.0 a
\* strictly smaller one; the probability is kept as the logit, of which it is
\* a strictly increasing function.
C5_Monotone ==
    out # <<>> =>
        LET row == probe[1]
        IN  /\ \A t \in TenureDomain :
                 t > row.tenure_months =>
                    calculate_churn_probability([row EXCEPT !.tenure_months = t])
                        < out[1]
            /\ \A k \in 0..(MaxTickets + 1) :
                 k > row.support_tickets =>
                    calculate_churn_probability([row EXCEPT !.support_tickets = k])
                        > out[1]
            /\ \A x \in SatisfactionDomain :
                 x > row.customer_satisfaction =>
                    calculate_churn_probability(
                        [row EXCEPT !.customer_satisfaction = x]) < out[1]

\* A row at the low end of the three fields, with larger values to compare.
C5_Witness ==
    /\ out # <<>>
    /\ probe[1].tenure_months = 0
    /\ probe[1].support_tickets = 0
    /\ probe[1].customer_satisfaction = 1000
    /\ calculate_churn_probability([probe[1] EXCEPT !.tenure_months = 200]) < out[1]

\* ----------------------------------------------------------------------- C6
\* C6 as claimed: with a record count that is not positive the run stops
\* with an error while the dict literal is evaluated: no frame is ever
\* built, no data file written, and the script goes no further.
C6_FailFast ==
    n_customers <= 0 =>
        /\ pc \in {"seed", "dict", "raised"}
        /\ data = NoFrame
        /\ csv_data = NoFile
        /\ csv_clean = NoFile

\* ----------------------------------------------------------------------- C7
\* The columns of the generated table, in order.
TableColumns ==
    <<"customer_id", "age", "gender", "tenure_months", "contract_type",
      "monthly_charges", "internet_service", "online_security", "tech_support",
      "streaming_tv", "payment_method", "paperless_billing", "support_tickets",
      "customer_satisfaction", "total_charges", "churn">>

\* The file holds the header and n_customers lines of 16 values, the last a
\* churn label.
CompleteFile(f) ==
    /\ Len(f) = n_customers + 1
    /\ f[1] = TableColumns
    /\ \A k \in 2..Len(f) : Len(f[k]) = 16 /\ f[k][16] \in {"Yes", "No"}

\* The table holds the 16 columns first, each of n_customers values, and a
\* churn label in every row.
CompleteTable(t) ==
    /\ t.exists
    /\ Len(t.cols) >= 16
    /\ SubSeq(t.cols, 1, 16) = TableColumns
    /\ \A c \in Range(TableColumns) : Len(t.val[c]) = n_customers
    /\ \A i \in 1..n_customers : t.val["churn"][i] \in {"Yes", "No"}

IsPrefix(a, b) == Len(a) <= Len(b) /\ SubSeq(b, 1, Len(a)) = a

\* The order of the draws as the claim lists it.
ClaimedOrder ==
    <<"age", "gender", "tenure_months", "contract_type", "monthly_charges",
      "internet_service", "online_security", "tech_support", "streaming_tv",
      "paperless_billing", "payment_method", "support_tickets",
      "customer_satisfaction", "total_charges", "churn">>

\* The order with payment_method ahead of paperless_billing.
PaymentFirstOrder ==
    <<"age", "gender", "tenure_months", "contract_type", "monthly_charges",
      "internet_service", "online_security", "tech_support", "streaming_tv",
      "payment_method", "paperless_billing", "support_tickets",
      "customer_satisfaction", "total_charges", "churn">>

\* Every field of the row but churn is a column of the table.
OtherFieldsExist ==
    /\ data.exists
    /\ Range(SubSeq(TableColumns, 1, 15)) \subseteq DOMAIN data.val

\* C8 as claimed: the draws are made in the order age, ..., streaming_tv,
\* paperless_billing, payment_method, ..., total_charges noise, churn, the
\* churn draw after every other field exists.
C8_ClaimedOrder ==
    /\ IsPrefix(drawlog, ClaimedOrder)
    /\ "churn" \in Range(drawlog) => OtherFieldsExist

\* C8, amended: the draws are made in the order of the claim but with
\* payment_method drawn before paperless_billing, as the dict literal lists
\* them; the churn draw is the last, made when every other field exists.
C8_DrawOrder ==
    /\ IsPrefix(drawlog, PaymentFirstOrder)
    /\ "churn" \in Range(drawlog) => OtherFieldsExist

\* All fifteen draws have been made.
C8_Witness ==
    /\ pc = "drop"
    /\ drawlog = PaymentFirstOrder
    /\ OtherFieldsExist

\* ----------------------------------------------------------------------- C9
\* The first 16 columns of a table.
First16(t) ==
    [exists |-> t.exists, cols |-> SubSeq(t.cols, 1, 16),
     val |-> [c \in Range(SubSeq(t.cols, 1, 16)) |-> t.val[c]]]

\* The columns of a table after the 16th.
Beyond16(t) == SubSeq(t.cols, 17, Len(t.cols))

\* C9 as claimed: from the export on, data is the table that was exported:
\* no step adds, removes or changes a column or a row.
C9_NeverMutated == Exported => ToCsv(data) = csv_data

\* C9, amended: from the export on no step removes or changes a row or one
\* of the 16 exported columns, and the only change to data is that plot 5
\* adds the column tenure_group and plot 6 the column satisfaction_group:
\* the steps after them (the correlation copy, the summary statistics, the
\* metadata) see the exported table with these two columns added.
C9_OnlyGroupsAdded ==
    Exported =>
        /\ Len(data.cols) >= 16
        /\ ToCsv(First16(data)) = csv_data
        /\ IsPrefix(Beyond16(data), <<"tenure_group", "satisfaction_group">>)
        /\ pc \in {"plot01", "plot05"} => Beyond16(data) = <<>>
        /\ pc \in {"plot07", "plot10", "plot11", "summary", "model_comparison",
                   "metadata", "model_file", "done"} =>
              Beyond16(data) = <<"tenure_group", "satisfaction_group">>
        /\ numeric_data.exists =>
              /\ ToCsv(First16(numeric_data)) = csv_data
              /\ IsPrefix(<<"tenure_group", "satisfaction_group">>,
                          Beyond16(numeric_data))

\* The run has ended with the two group columns added to the exported table.
C9_Witness ==
    /\ pc = "done"
    /\ Beyond16(data) = <<"tenure_group", "satisfaction_group">>
    /\ ToCsv(First16(data)) = csv_data
    /\ metadata.training + metadata.test <= NRows(data)

\* ---------------------------------------------------------------------- C10
\* The intervals (lo, hi] of the claim.
TenureIntervals == <<(<<-1, 12>>), <<12, 24>>, <<24, 48>>, <<48, 200>>>>
SatisfactionIntervals ==
    <<(<<0, 2000>>), <<2000, 3000>>, <<3000, 4000>>, <<4000, 5000>>>>
Holding(x, ivs) == {k \in DOMAIN ivs : ivs[k][1] < x /\ x <= ivs[k][2]}

\* C10: every tenure_months in 0..200 lies in exactly one of (-1,12],
\* (12,24], (24,48], (48,200] and is given that interval's label, every
\* customer_satisfaction in 1.0..5.0 in exactly one of (0,2], (2,3], (3,4],
\* (4,5] and is given that one's; none is left without a group.
C10_OneGroupEach ==
    out # <<>> =>
        /\ Cardinality(Holding(probe[1], TenureIntervals)) = 1
        /\ \A k \in Holding(probe[1], TenureIntervals) :
              out[1] = <<"0-1 year", "1-2 years", "2-4 years", "4+ years">>[k]
        /\ Cardinality(Holding(probe[2], SatisfactionIntervals)) = 1
        /\ \A k \in Holding(probe[2], SatisfactionIntervals) :
              out[2] = <<"Poor (1-2)", "Fair (2-3)", "Good (3-4)",
                         "Excellent (4-5)">>[k]
        /\ out[1] # "NaN"
        /\ out[2] # "NaN"

\* The lowest tenure and the lowest satisfaction have their groups.
C10_Witness ==
    /\ probe = <<0, 1000>>
    /\ out = <<"0-1 year", "Poor (1-2)">>

\* ---------------------------------------------------------------------- C11
\* C11 as claimed: the Training Samples and Test Samples counts written to
\* models/model_metadata.txt sum to the number of records of the dataset,
\* which is the record count N.
C11_SamplesSumToN ==
    metadata # NoMetadata =>
        /\ metadata.training + metadata.test = n_customers
        /\ pc \in {"model_file", "done"} => NRows(data) = n_customers

====
